---- MODULE Spec2Model ----
(***************************************************************************)
(* Model of bevy_benchmark_games: the deterministic random source          *)
(* (src/random.rs), the workload main loops (examples/asteroids.rs,        *)
(* examples/breakout.rs) and the benchmark harness (src/cli.rs).           *)
(***************************************************************************)
EXTENDS Integers, Sequences, FiniteSets, TLC

VARIABLES
    buf,        \* FAKE_RAND_BYTES: the compiled-in byte buffer
    rngA,       \* FakeRand instance A: position of its Cycle<Iter> (0..Len(buf))
    logA,       \* calls made on A so far, with the bytes consumed before each and its result
    rngB,       \* FakeRand instance B, constructed later: <<>> or <<its position>>
    outB,       \* results B returned while repeating A's calls
    skK,        \* skip/fill scenario: bytes skipped
    skN,        \* skip/fill scenario: bytes requested
    skA,        \* skip/fill scenario: instance doing skip(k); fill_bytes(n)
    skB,        \* skip/fill scenario: instance doing fill_bytes(k+n)
    skPcA,      \* "skip" -> "fill" -> "done"
    skPcB,      \* "fill" -> "done"
    skOutA,     \* bytes instance skA has produced
    skOutB,     \* bytes instance skB has produced
    workload,   \* workload process: "asteroids" or "breakout"
    headless,   \* workload process: built with cfg(headless)
    pc,         \* workload process: position in main
    iter,       \* workload process: repetitions of the main loop completed
    app,        \* workload process: the App of the current repetition
    counters,   \* workload process: the perf_event counter group
    counts,     \* workload process: what the last counters.read() returned
    metrics,    \* workload process: metrics.iterations
    stdout,     \* workload process: <<>> or <<the record printed>>
    failedAt,   \* workload process: the counter call that failed, "" if none
    file,       \* harness: ./target/asteroids_metrics.json, <<>> or <<its content>>
    cliPc,      \* harness: position in start()
    no_headless,\* harness: Args.no_headless
    output,     \* harness: stdout of the workload run, <<>> or <<its content>>
    current,    \* harness: metrics parsed from the output, <<>> or <<iterations>>
    previous,   \* harness: previous_iterations, <<>> (None) or <<iterations>>
    report,     \* harness: what has been drawn on the report so far
    exitCode,   \* harness: -1 while running, then the process exit code
    invocation, \* harness: invocations started so far
    pathExisted,\* harness: what previous_metrics_path.exists() returned
    failed,     \* harness: the step of start() that failed, "" if none
    hist        \* harness: history of the stored file over the invocations

randVars == <<rngA, logA, rngB, outB>>
skipVars == <<skK, skN, skA, skB, skPcA, skPcB, skOutA, skOutB>>
wlVars == <<workload, headless, pc, iter, app, counters, counts, metrics, stdout, failedAt>>
cliVars == <<file, cliPc, no_headless, output, current, previous, report, exitCode,
             invocation, pathExisted, failed, hist>>
vars == <<buf, randVars, skipVars, wlVars, cliVars>>
notRand == <<skipVars, wlVars, cliVars>>
notSkip == <<randVars, wlVars, cliVars>>
notWl == <<randVars, skipVars, cliVars>>
notCli == <<buf, randVars, skipVars, wlVars>>

(***************************************************************************)
(* Bounds of the model                                                     *)
(***************************************************************************)
MaxBufLen == 3      \* longest seed buffer explored
MaxCalls == 2       \* calls made on one FakeRand instance
MaxSkip == 4        \* largest k of skip(k) in the skip/fill scenario
MaxFill == 4        \* largest n of fill_bytes(n) in the skip/fill scenario
FrameScale == 100   \* frames are counted in units of FrameScale frames
MaxIterations == 3  \* repetitions of a workload's main loop explored
MaxSamples == 2     \* longest iterations list of a workload output or stored file
MaxInvocations == 2 \* harness invocations in a row

\* Byte values explored (a subset of u8 that keeps 4-byte words inside TLC's integers)
Bytes == {3, 127}

\* Request lengths explored by the call scenario: empty, inside the buffer,
\* and spanning several wrap-arounds of the longest buffer
FillLens == {0, 2, 2 * MaxBufLen + 1}

RECURSIVE SeqsOfLen(_, _)
SeqsOfLen(S, n) ==
    IF n = 0 THEN {<<>>}
    ELSE {Append(s, x) : s \in SeqsOfLen(S, n - 1), x \in S}

\* The contents random_bytes.bin may have: any non-empty byte sequence
SeedBuffers == UNION {SeqsOfLen(Bytes, n) : n \in 1..MaxBufLen}

(***************************************************************************)
(* src/random.rs                                                           *)
(***************************************************************************)

\* FakeRand::default(): FAKE_RAND_BYTES.iter().cycle(), positioned before the first byte
FakeRandDefault_shared == IF Len(logA) > 0 THEN rngA ELSE 0
FakeRandDefault == 0

\* Cycle<Iter>::next(): the next byte; when the inner iterator is exhausted it is
\* reset to the start of the slice first. None only for an empty slice.
CycleNext_nowrap(b, p) ==
    IF Len(b) = 0 THEN [some |-> FALSE, byte |-> 0, p |-> p]
    ELSE IF p < Len(b) THEN [some |-> TRUE, byte |-> b[p + 1], p |-> p + 1]
    ELSE [some |-> TRUE, byte |-> b[Len(b)], p |-> p]
CycleNext(b, p) ==
    IF p < Len(b) THEN [some |-> TRUE, byte |-> b[p + 1], p |-> p + 1]
    ELSE IF Len(b) = 0 THEN [some |-> FALSE, byte |-> 0, p |-> p]
    ELSE [some |-> TRUE, byte |-> b[1], p |-> 1]

\* FakeRand::fill_bytes(dest) with dest.len() = n: one next().unwrap() per byte
RECURSIVE fill_bytes(_, _, _)
fill_bytes(b, p, n) ==
    IF n = 0 THEN [panic |-> FALSE, out |-> <<>>, p |-> p]
    ELSE LET nx == CycleNext(b, p) IN
         IF ~nx.some THEN [panic |-> TRUE, out |-> <<>>, p |-> p]
         ELSE LET rest == fill_bytes(b, nx.p, n - 1) IN
              [panic |-> rest.panic, out |-> <<nx.byte>> \o rest.out, p |-> rest.p]

\* FakeRand::skip(bytes): one next().unwrap() per byte, the byte dropped
RECURSIVE skip_short(_, _, _)
skip_short(b, p, k) ==
    IF k <= 1 THEN [panic |-> FALSE, p |-> p]
    ELSE LET nx == CycleNext(b, p) IN
         IF ~nx.some THEN [panic |-> TRUE, p |-> p]
         ELSE skip_short(b, nx.p, k - 1)
RECURSIVE skip(_, _, _)
skip(b, p, k) ==
    IF k = 0 THEN [panic |-> FALSE, p |-> p]
    ELSE LET nx == CycleNext(b, p) IN
         IF ~nx.some THEN [panic |-> TRUE, p |-> p]
         ELSE skip(b, nx.p, k - 1)

\* FakeRand::try_fill_bytes(dest): Ok(self.fill_bytes(dest))
try_fill_bytes(b, p, n) ==
    LET r == fill_bytes(b, p, n) IN
    [panic |-> r.panic, out |-> r.out, p |-> r.p, res |-> "Ok"]

\* u32::from_le_bytes
LeU32(bs) == bs[1] + 256 * bs[2] + 65536 * bs[3] + 16777216 * bs[4]

\* FakeRand::next_u32(): next_u32_via_fill, four bytes read little-endian
next_u32(b, p) ==
    LET r == fill_bytes(b, p, 4) IN
    [panic |-> r.panic, out |-> IF r.panic THEN 0 ELSE LeU32(r.out), p |-> r.p]

\* FakeRand::next_u64(): next_u64_via_fill, eight bytes read little-endian
\* (the value kept as its low and high 32-bit halves)
next_u64(b, p) ==
    LET r == fill_bytes(b, p, 8) IN
    [panic |-> r.panic,
     out |-> IF r.panic THEN <<0, 0>>
             ELSE <<LeU32(SubSeq(r.out, 1, 4)), LeU32(SubSeq(r.out, 5, 8))>>,
     p |-> r.p]

\* The cursor of an instance: the index (from 0) of the byte the next call reads
Cursor(b, p) == p % Len(b)

\* The calls explored on a FakeRand instance
Calls ==
    {[op |-> "fill_bytes", n |-> n] : n \in FillLens}
    \cup {[op |-> "try_fill_bytes", n |-> n] : n \in FillLens}
    \cup {[op |-> "skip", n |-> n] : n \in FillLens}
    \cup {[op |-> "next_u32", n |-> 4], [op |-> "next_u64", n |-> 8]}

\* One call on an instance at position p: [panic, out, p, res]
Apply(b, p, c) ==
    CASE c.op = "fill_bytes" ->
            LET r == fill_bytes(b, p, c.n) IN
            [panic |-> r.panic, out |-> r.out, p |-> r.p, res |-> "unit"]
      [] c.op = "try_fill_bytes" -> try_fill_bytes(b, p, c.n)
      [] c.op = "skip" ->
            LET r == skip(b, p, c.n) IN
            [panic |-> r.panic, out |-> <<>>, p |-> r.p, res |-> "unit"]
      [] c.op = "next_u32" ->
            LET r == next_u32(b, p) IN
            [panic |-> r.panic, out |-> r.out, p |-> r.p, res |-> "unit"]
      [] c.op = "next_u64" ->
            LET r == next_u64(b, p) IN
            [panic |-> r.panic, out |-> r.out, p |-> r.p, res |-> "unit"]

RECURSIVE SumN(_)
SumN(log) == IF log = <<>> THEN 0 ELSE log[1].call.n + SumN(Tail(log))

\* Bytes instance A has consumed since construction (skipped bytes included)
ConsumedA == SumN(logA)

RandIdle ==
    /\ rngA = 0 /\ logA = <<>> /\ rngB = <<>> /\ outB = <<>>

SkipIdle ==
    /\ skK = 0 /\ skN = 0 /\ skA = 0 /\ skB = 0
    /\ skPcA = "idle" /\ skPcB = "idle" /\ skOutA = <<>> /\ skOutB = <<>>

WlIdle ==
    /\ workload = "none" /\ headless = TRUE /\ pc = "idle" /\ iter = 0
    /\ app = <<>> /\ counters = <<>> /\ counts = 0 /\ metrics = <<>>
    /\ stdout = <<>> /\ failedAt = ""

CliIdle ==
    /\ file = <<>> /\ cliPc = "idle" /\ no_headless = FALSE /\ output = <<>>
    /\ current = <<>> /\ previous = <<>> /\ report = <<>> /\ exitCode = -1
    /\ invocation = 0 /\ pathExisted = FALSE /\ failed = "" /\ hist = <<>>

\* ---- Two instances: A is constructed first, B at any later moment ----
InitRand ==
    /\ buf \in SeedBuffers
    /\ logA = <<>>
    /\ rngA = FakeRandDefault
    /\ rngB = <<>>
    /\ outB = <<>>
    /\ SkipIdle
    /\ WlIdle
    /\ CliIdle

\* A call on instance A
CallA(c) ==
    /\ Len(logA) < MaxCalls
    /\ LET r == Apply(buf, rngA, c) IN
       /\ rngA' = r.p
       /\ logA' = Append(logA, [call |-> c, start |-> ConsumedA,
                                panic |-> r.panic, out |-> r.out, res |-> r.res])
    /\ UNCHANGED <<buf, rngB, outB, notRand>>

\* FakeRand::new() for instance B
NewB ==
    /\ rngB = <<>>
    /\ rngB' = <<FakeRandDefault>>
    /\ UNCHANGED <<buf, rngA, logA, outB, notRand>>

\* Instance B makes the call A made at the same place of its own sequence
CallB ==
    /\ rngB # <<>>
    /\ Len(outB) < Len(logA)
    /\ LET r == Apply(buf, rngB[1], logA[Len(outB) + 1].call) IN
       /\ rngB' = <<r.p>>
       /\ outB' = Append(outB, [panic |-> r.panic, out |-> r.out, res |-> r.res])
    /\ UNCHANGED <<buf, rngA, logA, notRand>>

NextRand ==
    \/ \E c \in Calls : CallA(c)
    \/ NewB
    \/ CallB

SpecRand == InitRand /\ [][NextRand]_vars

\* ---- skip(k); fill_bytes(n) against fill_bytes(k+n) ----
InitSkip ==
    /\ buf \in SeedBuffers
    /\ RandIdle
    /\ WlIdle
    /\ CliIdle
    /\ skK \in 0..MaxSkip
    /\ skN \in 0..MaxFill
    /\ skA = FakeRandDefault
    /\ skB = FakeRandDefault
    /\ skPcA = "skip"
    /\ skPcB = "fill"
    /\ skOutA = <<>>
    /\ skOutB = <<>>

SkipA ==
    /\ skPcA = "skip"
    /\ LET r == skip(buf, skA, skK) IN
       /\ ~r.panic
       /\ skA' = r.p
    /\ skPcA' = "fill"
    /\ UNCHANGED <<buf, notSkip, skK, skN, skB, skPcB, skOutA, skOutB>>

FillA ==
    /\ skPcA = "fill"
    /\ LET r == fill_bytes(buf, skA, skN) IN
       /\ ~r.panic
       /\ skA' = r.p
       /\ skOutA' = skOutA \o r.out
    /\ skPcA' = "done"
    /\ UNCHANGED <<buf, notSkip, skK, skN, skB, skPcB, skOutB>>

FillB ==
    /\ skPcB = "fill"
    /\ LET r == fill_bytes(buf, skB, skK + skN) IN
       /\ ~r.panic
       /\ skB' = r.p
       /\ skOutB' = skOutB \o r.out
    /\ skPcB' = "done"
    /\ UNCHANGED <<buf, notSkip, skK, skN, skA, skPcA, skOutA>>

NextSkip == SkipA \/ FillA \/ FillB

SpecSkip == InitSkip /\ [][NextSkip]_vars

(***************************************************************************)
(* Claims about the deterministic random source                            *)
(***************************************************************************)

\* C1: a FakeRand constructed at any moment returns, for the same sequence of
\* fill_bytes / try_fill_bytes / next_u32 / next_u64 / skip calls, the outputs the
\* first instance returned, whatever the first instance has consumed meanwhile.
C1_SameOutputs ==
    \A i \in 1..Len(outB) :
        /\ outB[i].out = logA[i].out
        /\ outB[i].panic = logA[i].panic
        /\ outB[i].res = logA[i].res

C1_Witness ==
    /\ Len(outB) = MaxCalls
    /\ logA[1].call.op = "fill_bytes"
    /\ logA[1].call.n > 2 * Len(buf)
    /\ logA[2].call.op = "next_u64"

\* The bytes the stream holds at offsets start .. start+n-1 (from 0)
Expected(b, start, n) == [i \in 1..n |-> b[((start + i - 1) % Len(b)) + 1]]

\* C3: no call panics, try_fill_bytes returns Ok, the i-th byte consumed is
\* seed_buffer[i mod L], and the cursor has advanced by exactly the bytes requested.
C3_StreamIsCyclicBuffer ==
    /\ Cursor(buf, rngA) = ConsumedA % Len(buf)
    /\ \A i \in 1..Len(logA) :
        LET e == logA[i]
            want == Expected(buf, e.start, e.call.n) IN
        /\ ~e.panic
        /\ e.call.op = "try_fill_bytes" => e.res = "Ok"
        /\ e.call.op \in {"fill_bytes", "try_fill_bytes"} => e.out = want
        /\ e.call.op = "skip" => e.out = <<>>
        /\ e.call.op = "next_u32" => e.out = LeU32(want)
        /\ e.call.op = "next_u64" =>
              e.out = <<LeU32(SubSeq(want, 1, 4)), LeU32(SubSeq(want, 5, 8))>>

C3_Witness ==
    /\ Len(logA) = MaxCalls
    /\ logA[1].call.op = "skip"
    /\ logA[1].call.n > Len(buf)
    /\ logA[2].call.op = "try_fill_bytes"
    /\ logA[2].call.n > Len(buf)
    /\ Len(buf) > 1
    /\ buf[1] # buf[2]

\* The last n elements of a sequence
LastN(s, n) == SubSeq(s, Len(s) - n + 1, Len(s))

\* C2: skip(k) then fill_bytes(n) yields the last n bytes of fill_bytes(k+n) on
\* another fresh instance, both end at cursor (k+n) mod L, and skip outputs nothing.
C2_SkipThenFill ==
    /\ skPcA = "fill" => skOutA = <<>>
    /\ (skPcA = "done" /\ skPcB = "done") =>
          /\ skOutA = LastN(skOutB, skN)
          /\ Len(skOutA) = skN
          /\ Cursor(buf, skA) = Cursor(buf, skB)
          /\ Cursor(buf, skA) = (skK + skN) % Len(buf)

C2_Witness ==
    /\ skPcA = "done"
    /\ skPcB = "done"
    /\ skK > Len(buf)
    /\ skN > Len(buf)
    /\ Len(buf) > 1
    /\ buf[1] # buf[2]

(***************************************************************************)
(* examples/asteroids.rs and examples/breakout.rs: the workload process    *)
(***************************************************************************)

Workloads == {"asteroids", "breakout"}

\* RUN_FOR_FRAMES and ITERATIONS as the sources set them
AsteroidsHeadlessFrames == 2000
AsteroidsFrames == 500
AsteroidsHeadlessIterations == 50
AsteroidsIterations == 2
BreakoutHeadlessFrames == 300
BreakoutFrames == 400
BreakoutHeadlessIterations == 200
BreakoutIterations == 2

\* for _ in 0..100 of asteroids' setup
AsteroidCount == 100

Min(a, b) == IF a < b THEN a ELSE b

\* RUN_FOR_FRAMES of workload w built headless (h) or not, in units of FrameScale
RUN_FOR_FRAMES(w, h) ==
    (IF w = "asteroids"
     THEN (IF h THEN AsteroidsHeadlessFrames ELSE AsteroidsFrames)
     ELSE (IF h THEN BreakoutHeadlessFrames ELSE BreakoutFrames)) \div FrameScale

\* ITERATIONS of workload w built headless (h) or not, capped at MaxIterations
ITERATIONS(w, h) ==
    Min(IF w = "asteroids"
        THEN (IF h THEN AsteroidsHeadlessIterations ELSE AsteroidsIterations)
        ELSE (IF h THEN BreakoutHeadlessIterations ELSE BreakoutIterations),
        MaxIterations)

\* The headless update loop: 0..=RUN_FOR_FRAMES in asteroids, 0..RUN_FOR_FRAMES in breakout
HeadlessUpdates(w) ==
    IF w = "asteroids" THEN RUN_FOR_FRAMES(w, TRUE) + 1 ELSE RUN_FOR_FRAMES(w, TRUE)

\* The main loop, for _ in 0..ITERATIONS, goes on after i repetitions
LoopContinues_inclusive(i, w, h) == i <= ITERATIONS(w, h)
LoopContinues(i, w, h) == i < ITERATIONS(w, h)

\* gen_range calls per asteroid in asteroids' setup: position (2), size (2), velocity (2),
\* and the colour (3) under cfg(not(headless))
SetupDrawsPerAsteroid_nocolor(h) == 6
SetupDrawsPerAsteroid(h) == IF h THEN 6 ELSE 9

\* Values setup draws from its own FakeRand::new()
SetupDraws(w, h) == IF w = "asteroids" THEN AsteroidCount * SetupDrawsPerAsteroid(h) ELSE 0

\* Values one update draws from the step system's FakeRand: move_ship draws the
\* rotation, two translations and the firing divisor, and two velocities when it
\* fires; paddle_movement_system draws one bool
StepDraws(w, fire) == IF w = "asteroids" THEN (IF fire THEN 6 ELSE 4) ELSE 1

\* The position of a FakeRand after k values were drawn with next_u32
RECURSIVE AfterDraws(_, _, _)
AfterDraws(b, p, k) == IF k = 0 THEN p ELSE AfterDraws(b, next_u32(b, p).p, k - 1)

\* build_app(): a new App; the Local state of its systems (FrameCount, MoveShipState
\* or RngState) is default-constructed. steps, exit_step and drawn are bookkeeping:
\* updates run, the update that sent AppExit, values drawn by the step system.
build_app_shared_rng ==
    [started |-> FALSE, setup_draws |-> 0, frame_count |-> 0, exit |-> FALSE,
     exit_step |-> 0, steps |-> 0, rng |-> app.rng, drawn |-> 0]
build_app ==
    [started |-> FALSE, setup_draws |-> 0, frame_count |-> 0, exit |-> FALSE,
     exit_step |-> 0, steps |-> 0, rng |-> FakeRandDefault, drawn |-> 0]

\* counters.reset()
counters_reset_noop(c) == c
counters_reset(c) == [c EXCEPT !.count = 0]

\* exit_game: frame_count += 1; AppExit is sent when frame_count > RUN_FOR_FRAMES
exit_game(a, w, h) ==
    LET fc == a.frame_count + 1
        send == fc > RUN_FOR_FRAMES(w, h) IN
    [a EXCEPT !.frame_count = fc,
              !.exit = a.exit \/ send,
              !.exit_step = IF send /\ ~a.exit THEN a.steps + 1 ELSE a.exit_step]

InitWorkload ==
    /\ buf \in SeedBuffers
    /\ RandIdle
    /\ SkipIdle
    /\ CliIdle
    /\ workload \in Workloads
    /\ headless \in BOOLEAN
    /\ pc = "loop"
    /\ iter = 0
    /\ app = [started |-> FALSE, setup_draws |-> 0, frame_count |-> 0, exit |-> FALSE,
              exit_step |-> 0, steps |-> 0, rng |-> FakeRandDefault, drawn |-> 0]
    /\ counters = [enabled |-> FALSE, count |-> 0]
    /\ counts = 0
    /\ metrics = <<>>
    /\ stdout = <<>>
    /\ failedAt = ""

\* for _ in 0..ITERATIONS { let mut app = build_app(); let instant = Instant::now();
BuildApp ==
    /\ pc = "loop"
    /\ LoopContinues(iter, workload, headless)
    /\ app' = build_app
    /\ pc' = "enable"
    /\ UNCHANGED <<buf, notWl, workload, headless, iter, counters, counts, metrics,
                   stdout, failedAt>>

\* A counter call that returns Err: unwrap() panics and the process ends
Abort(call) ==
    /\ pc' = "aborted"
    /\ failedAt' = call
    /\ UNCHANGED <<buf, notWl, workload, headless, iter, app, counters, counts,
                   metrics, stdout>>

\* counters.enable().unwrap()
Enable ==
    /\ pc = "enable"
    /\ \/ /\ counters' = [counters EXCEPT !.enabled = TRUE]
          /\ pc' = "run"
          /\ UNCHANGED <<buf, notWl, workload, headless, iter, app, counts, metrics,
                         stdout, failedAt>>
       \/ Abort("enable")

\* The startup system setup, run once per App before its first update
Startup ==
    /\ pc = "run"
    /\ ~app.started
    /\ app' = [app EXCEPT !.started = TRUE,
                          !.setup_draws = SetupDraws(workload, headless)]
    /\ UNCHANGED <<buf, notWl, workload, headless, pc, iter, counters, counts, metrics,
                   stdout, failedAt>>

\* app.update(): every system runs once. Headless: the body of main's for loop.
\* Not headless: one turn of the runner app.run() hands the App to, which goes on
\* until AppExit has been sent.
Update(fire) ==
    /\ pc = "run"
    /\ app.started
    /\ IF headless THEN app.steps < HeadlessUpdates(workload) ELSE ~app.exit
    /\ LET a == exit_game(app, workload, headless)
           k == StepDraws(workload, fire) IN
       app' = [a EXCEPT !.steps = app.steps + 1,
                        !.rng = AfterDraws(buf, app.rng, k),
                        !.drawn = app.drawn + k]
    /\ counters' = IF counters.enabled
                   THEN [counters EXCEPT !.count = counters.count + 1]
                   ELSE counters
    /\ UNCHANGED <<buf, notWl, workload, headless, pc, iter, counts, metrics, stdout,
                   failedAt>>

\* The update loop is over (headless), or app.run() returns after AppExit
RunEnds ==
    /\ pc = "run"
    /\ app.started
    /\ IF headless THEN app.steps = HeadlessUpdates(workload) ELSE app.exit
    /\ pc' = "disable"
    /\ UNCHANGED <<buf, notWl, workload, headless, iter, app, counters, counts,
                   metrics, stdout, failedAt>>

\* counters.disable().unwrap(); let elapsed = instant.elapsed();
Disable ==
    /\ pc = "disable"
    /\ \/ /\ counters' = [counters EXCEPT !.enabled = FALSE]
          /\ pc' = "read"
          /\ UNCHANGED <<buf, notWl, workload, headless, iter, app, counts, metrics,
                         stdout, failedAt>>
       \/ Abort("disable")

\* let counts = counters.read().unwrap();
Read ==
    /\ pc = "read"
    /\ \/ /\ counts' = counters.count
          /\ pc' = "push"
          /\ UNCHANGED <<buf, notWl, workload, headless, iter, app, counters, metrics,
                         stdout, failedAt>>
       \/ Abort("read")

\* metrics.iterations.push(IterationMetrics { .. }): the counts read, and the elapsed
\* time (here the updates it covers) divided by RUN_FOR_FRAMES. rep and enabled_at_read
\* are bookkeeping: the repetition measured, and whether the counters ran at the read.
Push ==
    /\ pc = "push"
    /\ metrics' = Append(metrics,
                         [rep |-> iter + 1,
                          cpu_counts |-> counts,
                          elapsed_updates |-> app.steps,
                          divisor |-> RUN_FOR_FRAMES(workload, headless),
                          enabled_at_read |-> counters.enabled])
    /\ pc' = "reset"
    /\ UNCHANGED <<buf, notWl, workload, headless, iter, app, counters, counts, stdout,
                   failedAt>>

\* counters.reset().unwrap(); }
Reset ==
    /\ pc = "reset"
    /\ \/ /\ counters' = counters_reset(counters)
          /\ iter' = iter + 1
          /\ pc' = "loop"
          /\ UNCHANGED <<buf, notWl, workload, headless, app, counts, metrics, stdout,
                         failedAt>>
       \/ Abort("reset")

\* println!("{}", serde_json::to_string(&metrics).unwrap());
PrintMetrics ==
    /\ pc = "loop"
    /\ ~LoopContinues(iter, workload, headless)
    /\ stdout' = <<metrics>>
    /\ pc' = "done"
    /\ UNCHANGED <<buf, notWl, workload, headless, iter, app, counters, counts, metrics,
                   failedAt>>

NextWorkload ==
    \/ BuildApp
    \/ Enable
    \/ Startup
    \/ \E fire \in BOOLEAN : Update(fire)
    \/ RunEnds
    \/ Disable
    \/ Read
    \/ Push
    \/ Reset
    \/ PrintMetrics

SpecWorkload == InitWorkload /\ [][NextWorkload]_vars

(***************************************************************************)
(* src/cli.rs, src/cli/cmd.rs, src/metrics.rs: the benchmark harness       *)
(***************************************************************************)

\* IterationMetrics values explored
SampleEntries ==
    {[cpu_cycles |-> 0, cpu_instructions |-> 40, avg_frame_time_us |-> 0],
     [cpu_cycles |-> 10, cpu_instructions |-> 20, avg_frame_time_us |-> 30]}

\* Metrics.iterations values explored
MetricsLists == UNION {SeqsOfLen(SampleEntries, n) : n \in 0..MaxSamples}

\* serde_json::to_string / to_writer of a Metrics: the JSON text of the record
ToJson_reversed(m) ==
    [kind |-> "metrics", iterations |-> [i \in 1..Len(m) |-> m[Len(m) + 1 - i]]]
ToJson(m) == [kind |-> "metrics", iterations |-> m]

\* The texts a file or a workload's stdout may hold: the JSON of a Metrics record,
\* the JSON text null, or text that is no JSON of either
Contents ==
    {ToJson(m) : m \in MetricsLists}
    \cup {[kind |-> "null", iterations |-> <<>>], [kind |-> "garbage", iterations |-> <<>>]}

\* serde_json::from_str::<Metrics>(text)
ParseMetricsJson(c) ==
    IF c.kind = "metrics" THEN [ok |-> TRUE, value |-> c.iterations]
    ELSE [ok |-> FALSE, value |-> <<>>]

\* serde_json::from_reader::<_, Option<Metrics>>(file): the JSON null is None
ParseOptionMetricsJson(c) ==
    IF c.kind = "metrics" THEN [ok |-> TRUE, value |-> <<c.iterations>>]
    ELSE IF c.kind = "null" THEN [ok |-> TRUE, value |-> <<>>]
    ELSE [ok |-> FALSE, value |-> <<>>]

\* Check for previous run metrics: None when the path does not exist, else the file parsed
LoadPreviousMetrics_missing_is_error(f) ==
    IF f = <<>> THEN [ok |-> FALSE, value |-> <<>>] ELSE ParseOptionMetricsJson(f[1])
LoadPreviousMetrics(f) ==
    IF f = <<>> THEN [ok |-> TRUE, value |-> <<>>] ELSE ParseOptionMetricsJson(f[1])

RECURSIVE Insert(_, _)
Insert(x, v) ==
    IF v = <<>> THEN <<x>>
    ELSE IF x <= v[1] THEN <<x>> \o v
    ELSE <<v[1]>> \o Insert(x, Tail(v))

\* sort_unstable_by(|x, y| x.partial_cmp(&y).unwrap())
RECURSIVE Sorted(_)
Sorted(v) == IF v = <<>> THEN <<>> ELSE Insert(v[1], Sorted(Tail(v)))

RECURSIVE Sum(_)
Sum(v) == IF v = <<>> THEN 0 ELSE v[1] + Sum(Tail(v))

\* Distribution::min / max / mean (the mean kept as the fraction sum / count)
DistMin(v) == CHOOSE x \in {v[i] : i \in 1..Len(v)} : \A j \in 1..Len(v) : x <= v[j]
DistMax(v) == CHOOSE x \in {v[i] : i \in 1..Len(v)} : \A j \in 1..Len(v) : x >= v[j]
DistMean(v) == [num |-> Sum(v), den |-> Len(v)]

\* (dist.mean() - prev.mean()) / prev.mean() * 100. as f64 arithmetic: a zero
\* previous mean gives an infinity or NaN
percentage_diff_over_current(data, prev) ==
    LET m == DistMean(data)
        pm == DistMean(prev) IN
    IF pm.num = 0
    THEN (IF m.num > 0 THEN [kind |-> "inf", num |-> 0, den |-> 1]
          ELSE [kind |-> "nan", num |-> 0, den |-> 1])
    ELSE [kind |-> "finite",
          num |-> (m.num * pm.den - pm.num * m.den) * 100,
          den |-> m.num * pm.den]
percentage_diff(data, prev) ==
    LET m == DistMean(data)
        pm == DistMean(prev) IN
    IF pm.num = 0
    THEN (IF m.num > 0 THEN [kind |-> "inf", num |-> 0, den |-> 1]
          ELSE [kind |-> "nan", num |-> 0, den |-> 1])
    ELSE [kind |-> "finite",
          num |-> (m.num * pm.den - pm.num * m.den) * 100,
          den |-> pm.num * m.den]

\* The colour of the difference percentage
diff_color_inclusive(d) ==
    IF d.kind = "finite" /\ (IF d.num < 0 THEN -d.num ELSE d.num) <= 2 * d.den THEN "BLACK"
    ELSE IF d.kind = "inf" \/ (d.kind = "finite" /\ d.num > 0) THEN "RED"
    ELSE "GREEN"
diff_color(d) ==
    IF d.kind = "finite" /\ (IF d.num < 0 THEN -d.num ELSE d.num) < 2 * d.den THEN "BLACK"
    ELSE IF d.kind = "inf" \/ (d.kind = "finite" /\ d.num > 0) THEN "RED"
    ELSE "GREEN"

\* format!("{:+.2}%", percentage_diff): a signed number, or what f64 formatting
\* prints for an infinity or a NaN
diff_text(d) ==
    IF d.kind = "finite" THEN "{:+.2}%"
    ELSE IF d.kind = "inf" THEN "+inf%"
    ELSE "NaN%"

\* let x_min = if let Some(prev) = &prev_dist { if prev.min() < dist.min() { prev.min() }
\* else { dist.min() } } else { dist.min() }
x_min(data, previous_data) ==
    IF previous_data # <<>> /\ DistMin(previous_data[1]) < DistMin(data)
    THEN DistMin(previous_data[1]) ELSE DistMin(data)

\* let x_max = .. if prev.max() > dist.max() { prev.max() } else { dist.max() } ..
x_max_of_current(data, previous_data) == DistMax(data)
x_max(data, previous_data) ==
    IF previous_data # <<>> /\ DistMax(previous_data[1]) > DistMax(data)
    THEN DistMax(previous_data[1]) ELSE DistMax(data)

\* graph_series(title, .., data, previous_data, ..): the panel it draws, or a panic
\* when a Distribution's min() finds no sample
graph_series(title, data, previous_data) ==
    IF data = <<>> \/ (previous_data # <<>> /\ previous_data[1] = <<>>)
    THEN [panic |-> TRUE, panel |-> <<>>]
    ELSE
      LET has == previous_data # <<>>
          prev_series == IF has
                         THEN <<[color |-> "RED", points |-> previous_data[1],
                                 mean |-> DistMean(previous_data[1])]>>
                         ELSE <<>>
          d == percentage_diff(data, previous_data[1]) IN
      [panic |-> FALSE,
       panel |-> <<[title |-> title, x_min |-> x_min(data, previous_data),
                    x_max |-> x_max(data, previous_data),
                    series |-> prev_series \o
                               <<[color |-> "BLUE", points |-> data, mean |-> DistMean(data)]>>,
                    delta |-> IF has THEN <<[value |-> d, color |-> diff_color(d),
                                               text |-> diff_text(d)]>>
                              ELSE <<>>]>>]

\* The sorted values of one field over an iterations list
Column(its, field) == Sorted([i \in 1..Len(its) |-> its[i][field]])

\* The harness holds no FakeRand: buf plays no part here
InitCli ==
    /\ buf = <<3>>
    /\ RandIdle
    /\ SkipIdle
    /\ WlIdle
    /\ file \in {<<>>} \cup {<<c>> : c \in Contents}
    /\ cliPc = "start"
    /\ no_headless \in BOOLEAN
    /\ output = <<>>
    /\ current = <<>>
    /\ previous = <<>>
    /\ report = <<>>
    /\ exitCode = -1
    /\ invocation = 1
    /\ pathExisted = FALSE
    /\ failed = ""
    /\ hist = [start |-> file, inherited |-> <<>>, wrote |-> FALSE, torn |-> FALSE,
               saved |-> <<>>, completed |-> <<>>]

\* start() returns Err: run() logs the report and calls std::process::exit(1)
Fail_exit_0 ==
    /\ cliPc' = "exited"
    /\ exitCode' = 0
    /\ failed' = cliPc
Fail ==
    /\ cliPc' = "exited"
    /\ exitCode' = 1
    /\ failed' = cliPc

\* A panic inside start(): the process ends with the panic exit code
Panic ==
    /\ cliPc' = "exited"
    /\ exitCode' = 101
    /\ failed' = cliPc

\* SVGBackend::new(..).into_drawing_area(); root_drawing_area.fill(&WHITE)?
FillRoot ==
    /\ cliPc = "start"
    /\ \/ /\ cliPc' = "build"
          /\ report' = <<[kind |-> "fill"]>>
          /\ UNCHANGED <<exitCode, failed>>
       \/ Fail /\ UNCHANGED report
    /\ UNCHANGED <<notCli, hist, file, no_headless, pathExisted, output, current, previous, invocation>>

\* cmd::build_example(benchmark, !args.no_headless)?
BuildExample ==
    /\ cliPc = "build"
    /\ \/ cliPc' = "run" /\ UNCHANGED <<exitCode, failed>>
       \/ Fail
    /\ UNCHANGED <<notCli, hist, file, no_headless, pathExisted, output, current, previous, report,
                   invocation>>

\* let output = cmd::run_example(benchmark)?
RunExample ==
    /\ cliPc = "run"
    /\ \/ \E c \in Contents :
             /\ output' = <<c>>
             /\ cliPc' = "parse"
             /\ UNCHANGED <<exitCode, failed>>
       \/ Fail /\ UNCHANGED output
    /\ UNCHANGED <<notCli, hist, file, no_headless, pathExisted, current, previous, report, invocation>>

\* let metrics: Metrics = serde_json::from_str(&output).wrap_err(..)?
ParseOutput ==
    /\ cliPc = "parse"
    /\ LET r == ParseMetricsJson(output[1]) IN
       IF r.ok
       THEN /\ current' = <<r.value>>
            /\ cliPc' = "load"
            /\ UNCHANGED <<exitCode, failed>>
       ELSE Fail /\ UNCHANGED current
    /\ UNCHANGED <<notCli, hist, file, no_headless, pathExisted, output, previous, report, invocation>>

\* let previous_metrics: Option<Metrics> = if path.exists() { open(..)?; from_reader(file)? }
\* else { None }
LoadPrevious_truncating ==
    /\ cliPc = "load"
    /\ \/ LET r == LoadPreviousMetrics(file) IN
          IF r.ok
          THEN /\ previous' = r.value
               /\ cliPc' = "save"
               /\ UNCHANGED <<exitCode, failed, file>>
          ELSE Fail /\ UNCHANGED <<previous, file>>
       \/ /\ file # <<>>
          /\ file' = <<[kind |-> "garbage", iterations |-> <<>>]>>
          /\ Fail
          /\ UNCHANGED previous
    /\ pathExisted' = (file # <<>>)
    /\ UNCHANGED <<notCli, hist, no_headless, output, current, report, invocation>>
LoadPrevious ==
    /\ cliPc = "load"
    /\ \/ LET r == LoadPreviousMetrics(file) IN
          IF r.ok
          THEN /\ previous' = r.value
               /\ cliPc' = "save"
               /\ UNCHANGED <<exitCode, failed>>
          ELSE Fail /\ UNCHANGED previous
       \/ \* OpenOptions::new().read(true).open(..) fails
          /\ file # <<>>
          /\ Fail
          /\ UNCHANGED previous
    /\ pathExisted' = (file # <<>>)
    /\ UNCHANGED <<notCli, hist, file, no_headless, output, current, report, invocation>>

\* What the file holds after truncate(true) and serde_json::to_writer(file, &metrics):
\* the new record alone, whatever the file held
WriteMetrics(f, m) == <<ToJson(m)>>

\* OpenOptions::new().write(true).create(true).truncate(true).open(..)?;
\* serde_json::to_writer(file, &metrics)?
SaveMetrics ==
    /\ cliPc = "save"
    /\ \/ /\ file' = WriteMetrics(file, current[1])
          /\ hist' = [hist EXCEPT !.wrote = TRUE, !.torn = FALSE, !.saved = current]
          /\ cliPc' = "title"
          /\ UNCHANGED <<exitCode, failed>>
       \/ \* open fails: the file is as it was
          Fail /\ UNCHANGED <<file, hist>>
       \/ \* the file is truncated and the write fails
          /\ file' = <<[kind |-> "garbage", iterations |-> <<>>]>>
          /\ hist' = [hist EXCEPT !.wrote = TRUE, !.torn = TRUE]
          /\ Fail
    /\ UNCHANGED <<notCli, no_headless, pathExisted, output, current, previous, report, invocation>>

\* title_area.draw_text(..)?
DrawTitle ==
    /\ cliPc = "title"
    /\ \/ /\ report' = Append(report, [kind |-> "title"])
          /\ cliPc' = "frame_time"
          /\ UNCHANGED <<exitCode, failed>>
       \/ Fail /\ UNCHANGED report
    /\ UNCHANGED <<notCli, hist, file, no_headless, pathExisted, output, current, previous, invocation>>

\* One graph_series(..)? call of start(): at position at, over one field, then on to next
GraphPanel(at, title, field, next) ==
    /\ cliPc = at
    /\ LET prev == IF previous = <<>> THEN <<>> ELSE <<Column(previous[1], field)>>
           g == graph_series(title, Column(current[1], field), prev) IN
       IF g.panic
       THEN Panic /\ UNCHANGED report
       ELSE \/ /\ report' = Append(report, [kind |-> "panel", panel |-> g.panel[1]])
               /\ cliPc' = next
               /\ UNCHANGED <<exitCode, failed>>
            \/ \* a draw call fails
               Fail /\ UNCHANGED report
    /\ UNCHANGED <<notCli, hist, file, no_headless, pathExisted, output, current, previous, invocation>>

GraphFrameTime ==
    GraphPanel("frame_time", "Frame Time Avg.", "avg_frame_time_us", "cpu_cycles")
GraphCpuCycles ==
    GraphPanel("cpu_cycles", "CPU Cycles", "cpu_cycles", "cpu_instructions")
GraphCpuInstructions ==
    GraphPanel("cpu_instructions", "CPU instructions", "cpu_instructions", "finish")

\* Ok(()) from start(): run() returns and the process exits with code 0
Finish ==
    /\ cliPc = "finish"
    /\ cliPc' = "exited"
    /\ exitCode' = 0
    /\ hist' = [hist EXCEPT !.completed = current]
    /\ UNCHANGED failed
    /\ UNCHANGED <<notCli, file, no_headless, pathExisted, output, current, previous, report,
                   invocation>>

\* The harness is run again; only the stored file outlives the process
NextInvocation ==
    /\ cliPc = "exited"
    /\ invocation < MaxInvocations
    /\ invocation' = invocation + 1
    /\ cliPc' = "start"
    /\ no_headless' \in BOOLEAN
    /\ output' = <<>>
    /\ current' = <<>>
    /\ previous' = <<>>
    /\ report' = <<>>
    /\ exitCode' = -1
    /\ pathExisted' = FALSE
    /\ failed' = ""
    /\ hist' = [hist EXCEPT !.start = file,
                            !.inherited = IF ~hist.wrote THEN hist.inherited
                                          ELSE IF hist.torn THEN <<>> ELSE current,
                            !.wrote = FALSE]
    /\ UNCHANGED <<notCli, file>>

NextCli ==
    \/ FillRoot
    \/ BuildExample
    \/ RunExample
    \/ ParseOutput
    \/ LoadPrevious
    \/ SaveMetrics
    \/ DrawTitle
    \/ GraphFrameTime
    \/ GraphCpuCycles
    \/ GraphCpuInstructions
    \/ Finish
    \/ NextInvocation

SpecCli == InitCli /\ [][NextCli]_vars


(***************************************************************************)
(* Claims about the workload process                                       *)
(***************************************************************************)

\* C4: headless, every iteration runs exactly RUN_FOR_FRAMES updates between
\* counters.enable() and counters.disable(); not headless, AppExit is signalled
\* after exactly RUN_FOR_FRAMES updates; the updates a sample covers equal the
\* divisor RUN_FOR_FRAMES of its avg_frame_time_us.
C4_ExactlyRunForFrames ==
    /\ (headless /\ pc = "disable") =>
          /\ app.steps = RUN_FOR_FRAMES(workload, headless)
          /\ counters.count = RUN_FOR_FRAMES(workload, headless)
    /\ (~headless /\ app.exit) => app.exit_step = RUN_FOR_FRAMES(workload, headless)
    /\ \A j \in 1..Len(metrics) : metrics[j].elapsed_updates = metrics[j].divisor

\* C5: a process that completes prints a record of exactly ITERATIONS entries, the
\* j-th measured in the j-th repetition; a failed enable, disable or read appends
\* no entry for its repetition and the process ends with nothing printed.
C5_MetricsRecord ==
    /\ \A j \in 1..Len(metrics) : metrics[j].rep = j
    /\ pc = "done" =>
          /\ stdout = <<metrics>>
          /\ Len(metrics) = ITERATIONS(workload, headless)
    /\ pc # "done" => stdout = <<>>
    /\ (pc = "aborted" /\ failedAt \in {"enable", "disable", "read"}) =>
          Len(metrics) = iter

C5_Witness ==
    /\ pc = "done"
    /\ stdout # <<>>
    /\ Len(stdout[1]) = MaxIterations
    /\ stdout[1][MaxIterations].rep = MaxIterations

C7_CounterWindows ==
    /\ counters.enabled =>
          \/ pc \in {"run", "disable"}
          \/ (pc = "aborted" /\ failedAt = "disable")
    /\ pc = "enable" => counters.count = 0
    /\ pc \in {"run", "disable"} => counters.count = app.steps
    /\ pc \in {"read", "push"} => ~counters.enabled
    /\ \A j \in 1..Len(metrics) :
          /\ ~metrics[j].enabled_at_read
          /\ metrics[j].cpu_counts = metrics[j].elapsed_updates

C7_Witness ==
    /\ Len(metrics) >= 2
    /\ pc = "run"
    /\ counters.enabled
    /\ app.steps > 0

\* C8 as stated: starting a new iteration leaves the cursor of the random stream
\* where the previous iteration stopped.
C8_NeverRestarted == [][(pc = "loop" /\ pc' = "enable") => app'.rng = app.rng]_vars

\* C8 amended: every iteration builds a new App whose random source is constructed
\* afresh: the cursor is at the start of the buffer when the iteration starts, and
\* within the iteration it moves forward by exactly the bytes drawn, modulo L.
C8_FreshPerIteration ==
    /\ pc = "enable" => app.rng = FakeRandDefault
    /\ app.drawn = 0 => app.rng = FakeRandDefault
    /\ Cursor(buf, app.rng) = (4 * app.drawn) % Len(buf)

C8_Witness ==
    /\ iter >= 1
    /\ pc = "run"
    /\ app.drawn > 0
    /\ Len(buf) > 1
    /\ Cursor(buf, app.rng) # 0

(***************************************************************************)
(* Claims about the harness                                                *)
(***************************************************************************)

PastLoad == {"save", "title", "frame_time", "cpu_cycles", "cpu_instructions", "finish"}
PastSave == PastLoad \ {"save"}

\* The invocation has passed the step that loads (saves) the stored file
LoadPassed == cliPc \in PastLoad \/ (cliPc = "exited" /\ (failed \in PastLoad \/ exitCode = 0))
SavePassed == cliPc \in PastSave \/ (cliPc = "exited" /\ (failed \in PastSave \/ exitCode = 0))

Panels == {i \in 1..Len(report) : report[i].kind = "panel"}

\* C9: with no stored metrics file the load yields no baseline and is no error:
\* the invocation goes on, saves the current run, and every panel it draws holds
\* the current distribution alone, without a percentage delta.
C9_NoFileIsNoBaseline ==
    /\ (cliPc = "exited" /\ failed = "load") => pathExisted
    /\ (cliPc = "save" /\ ~pathExisted) => exitCode = -1
    /\ (LoadPassed /\ ~pathExisted) =>
          /\ previous = <<>>
          /\ SavePassed => file = <<ToJson(current[1])>>
          /\ \A i \in Panels :
                /\ Len(report[i].panel.series) = 1
                /\ report[i].panel.series[1].color = "BLUE"
                /\ report[i].panel.delta = <<>>

C9_Witness ==
    /\ cliPc = "finish"
    /\ ~pathExisted
    /\ invocation = 1
    /\ Cardinality(Panels) = 3
    /\ file = <<ToJson(current[1])>>
    /\ Len(current[1]) = MaxSamples

\* C10: a stored file whose content does not parse into a Metrics record makes the
\* invocation fail; the load step is passed with an existing file only with the
\* baseline that file holds.
C10_MalformedIsFatal ==
    (cliPc = "save" /\ file # <<>>) =>
        /\ ParseMetricsJson(file[1]).ok
        /\ previous = <<ParseMetricsJson(file[1]).value>>

\* C11: the stored file is written only by the save step, which is reached only after the
\* build, the workload run, the parsing of its output and the loading of the baseline have
\* all succeeded; the write is done before any panel is drawn; an invocation that fails at
\* build, run, parsing or loading leaves the file as it found it.
C11_SaveAfterCollectBeforePanels ==
    /\ hist.wrote =>
          /\ LoadPassed
          /\ output # <<>> /\ ParseMetricsJson(output[1]).ok
          /\ current = <<ParseMetricsJson(output[1]).value>>
          /\ LoadPreviousMetrics(hist.start).ok
          /\ previous = LoadPreviousMetrics(hist.start).value
    /\ ~hist.wrote => file = hist.start
    /\ (cliPc = "exited" /\ failed \in {"start", "build", "run", "parse", "load"}) =>
          ~hist.wrote /\ file = hist.start
    /\ Panels # {} => hist.wrote /\ file = <<ToJson(current[1])>>

\* An invocation that read a baseline, replaced it and drew its three panels
C11_Witness ==
    /\ cliPc = "exited" /\ exitCode = 0
    /\ hist.wrote /\ previous # <<>> /\ file # hist.start
    /\ Cardinality(Panels) = 3

\* C12: once the invocations have written the stored file, it holds the metrics of the most
\* recent invocation that completed (exit code 0), and an invocation that did not complete
\* leaves the file as it found it.
C12_BaselineIsLastCompleted ==
    cliPc = "exited" =>
        /\ (hist.saved # <<>> \/ hist.torn) =>
              hist.completed # <<>> /\ file = <<ToJson(hist.completed[1])>>
        /\ exitCode # 0 => file = hist.start

C13_WitnessEmpty ==
    invocation = 2 /\ LoadPassed /\ hist.inherited = << <<>> >>

\* C14: in a panel whose baseline has mean 0, the percentage delta is undefined and is
\* drawn as the text "n/a", never as an infinity or a NaN.
C14_ZeroBaselineIsNA ==
    \A i \in Panels :
        LET p == report[i].panel IN
        (p.delta # <<>> /\ p.series[1].mean.num = 0) =>
            /\ p.delta[1].text = "n/a"
            /\ p.delta[1].value.kind \notin {"inf", "nan"}

\* |x| of an integer
Abs(x) == IF x < 0 THEN -x ELSE x

UpTo(s) ==
    LET order == <<"start", "build", "run", "parse", "load", "save", "title",
                   "frame_time", "cpu_cycles", "cpu_instructions">> IN
    {order[i] : i \in {j \in 1..Len(order) : \E k \in j..Len(order) : order[k] = s}}

\* C16: a failure of the build, of the workload run, of the parsing of its output, of the
\* reading or writing of the stored metrics or of a draw call ends the invocation with a
\* non-zero exit code and with nothing of the later steps done; the exit code is 0 only
\* when the benchmark was built, run, parsed, saved and drawn in full.
C16_FailureStopsInvocation ==
    cliPc = "exited" =>
        /\ exitCode \in {0, 1, 101}
        /\ failed # "" <=> exitCode # 0
        /\ failed \in UpTo("start") => report = <<>>
        /\ failed \in UpTo("run") => output = <<>>
        /\ failed \in UpTo("parse") => current = <<>>
        /\ failed \in UpTo("load") => previous = <<>> /\ ~hist.wrote /\ file = hist.start
        /\ failed \in UpTo("save") => \A i \in 1..Len(report) : report[i].kind = "fill"
        /\ failed \in UpTo("title") => Panels = {}
        /\ failed = "frame_time" => Cardinality(Panels) = 0
        /\ failed = "cpu_cycles" => Cardinality(Panels) = 1
        /\ failed = "cpu_instructions" => Cardinality(Panels) = 2
        /\ exitCode = 0 =>
              /\ output # <<>> /\ current # <<>>
              /\ hist.wrote /\ ~hist.torn /\ file = <<ToJson(current[1])>>
              /\ \E i \in 1..Len(report) : report[i].kind = "title"
              /\ Cardinality(Panels) = 3

\* A draw call of the second panel failed: one panel drawn, exit code 1
C16_Witness ==
    /\ cliPc = "exited" /\ failed = "cpu_cycles" /\ exitCode = 1
    /\ Cardinality(Panels) = 1

\* An invocation that went through every step has exited with code 0
C16_WitnessSuccess ==
    cliPc = "exited" /\ exitCode = 0 /\ Cardinality(Panels) = 3

\* C17: whenever graph_series is about to be called, the current iterations list and, when a
\* baseline was loaded, the baseline iterations list are non-empty, so that no Distribution
\* is constructed from an empty sample vector (and no invocation ends in a panic).
C17_NoEmptyDistribution ==
    /\ cliPc \in {"frame_time", "cpu_cycles", "cpu_instructions"} =>
          /\ current[1] # <<>>
          /\ previous # <<>> => previous[1] # <<>>
    /\ exitCode # 101

\* C18: the colour of the delta drawn depends on its value d alone: black when |d| < 2, red
\* when d >= 2, green when d <= -2; a delta is drawn exactly when a baseline was loaded; and
\* the baseline distribution (in the colour of the previous run) is drawn before the current
\* one.
C18_DeltaColourAndOrder ==
    /\ \A i \in Panels :
          LET p == report[i].panel IN
          /\ p.delta # <<>> <=> previous # <<>>
          /\ Len(p.series) = (IF previous # <<>> THEN 2 ELSE 1)
          /\ p.series[Len(p.series)].color = "BLUE"
          /\ previous # <<>> => p.series[1].color = "RED"
          /\ p.delta # <<>> =>
                LET d == p.delta[1].value
                    color == p.delta[1].color IN
                /\ (d.kind = "finite" /\ Abs(d.num) < 2 * d.den) => color = "BLACK"
                /\ (d.kind = "inf" \/ (d.kind = "finite" /\ d.num >= 2 * d.den)) => color = "RED"
                /\ (d.kind = "finite" /\ d.num <= -2 * d.den) => color = "GREEN"
    /\ \A i, j \in Panels :
          (report[i].panel.delta # <<>> /\ report[j].panel.delta # <<>>
           /\ report[i].panel.delta[1].value = report[j].panel.delta[1].value)
          => report[i].panel.delta[1].color = report[j].panel.delta[1].color
    \* at the thresholds, and just inside them
    /\ diff_color([kind |-> "finite", num |-> 2, den |-> 1]) = "RED"
    /\ diff_color([kind |-> "finite", num |-> -2, den |-> 1]) = "GREEN"
    /\ diff_color([kind |-> "finite", num |-> 199, den |-> 100]) = "BLACK"
    /\ diff_color([kind |-> "finite", num |-> -199, den |-> 100]) = "BLACK"

\* One report holds a red and a green delta, each drawn over a baseline series
C18_Witness ==
    /\ previous # <<>>
    /\ \E i \in Panels : report[i].panel.delta # <<>> /\ report[i].panel.delta[1].color = "RED"
          /\ report[i].panel.delta[1].value.kind = "finite"
    /\ \E i \in Panels : report[i].panel.delta # <<>> /\ report[i].panel.delta[1].color = "GREEN"
          /\ report[i].panel.delta[1].value.kind = "finite"

\* A panel holds a delta in the neutral colour
C18_WitnessNeutral ==
    \E i \in Panels : report[i].panel.delta # <<>> /\ report[i].panel.delta[1].color = "BLACK"

\* The sample values drawn in panel p, and those of its k-th series
PointsOf(p, k) == {p.series[k].points[n] : n \in 1..Len(p.series[k].points)}
AllPoints(p) == UNION {PointsOf(p, k) : k \in 1..Len(p.series)}

\* C19: the x-axis of a panel runs from the smaller of the two minima to the greater of the
\* two maxima when a baseline is drawn, and from the minimum to the maximum of the current
\* samples otherwise; every sample of every distribution drawn lies inside that range.
C19_RangeCoversSamples ==
    \A i \in Panels :
        LET p == report[i].panel
            cur == PointsOf(p, Len(p.series)) IN
        /\ \A v \in AllPoints(p) : p.x_min <= v /\ v <= p.x_max
        /\ p.x_min \in AllPoints(p) /\ p.x_max \in AllPoints(p)
        /\ Len(p.series) = 1 =>
              /\ p.x_min \in cur /\ \A v \in cur : p.x_min <= v
              /\ p.x_max \in cur /\ \A v \in cur : v <= p.x_max
        /\ Len(p.series) = 2 =>
              LET base == PointsOf(p, 1)
                  lo(S) == CHOOSE v \in S : \A w \in S : v <= w
                  hi(S) == CHOOSE v \in S : \A w \in S : w <= v IN
              /\ p.x_min = (IF lo(base) <= lo(cur) THEN lo(base) ELSE lo(cur))
              /\ p.x_max = (IF hi(base) >= hi(cur) THEN hi(base) ELSE hi(cur))

\* A panel whose baseline reaches further right than the current samples, the two minima equal
C19_Witness ==
    \E i \in Panels :
        LET p == report[i].panel IN
        /\ Len(p.series) = 2
        /\ p.series[1].points[1] = p.series[2].points[1]
        /\ p.x_max \notin PointsOf(p, 2)
        /\ p.x_min < p.x_max

\* A panel whose baseline reaches further left than the current samples
C19_WitnessLeft ==
    \E i \in Panels :
        LET p == report[i].panel IN
        Len(p.series) = 2 /\ p.x_min \notin PointsOf(p, 2)

====
